---- MODULE Spec2Model ----
(***************************************************************************)
(* Model of server.js: an express application over a better-sqlite3 store  *)
(* with two tables, clients and grants.  Every route handler is one        *)
(* action; it runs to completion (better-sqlite3 is synchronous) and       *)
(* leaves the request it served in req and its answer in resp.             *)
(*                                                                         *)
(* Store semantics taken from the libraries the code is built on:          *)
(*  - better-sqlite3 compiles SQLite with SQLITE_DEFAULT_FOREIGN_KEYS=1,   *)
(*    so the FOREIGN KEY ... ON DELETE CASCADE of line 39 is enforced;     *)
(*  - a statement refuses to bind the JavaScript value undefined           *)
(*    (TypeError) and binds null as SQL NULL;                              *)
(*  - a table without INTEGER PRIMARY KEY gives a new row the rowid        *)
(*    max(rowid)+1;                                                        *)
(*  - rows that compare equal under ORDER BY come in an unspecified order; *)
(*  - datetime('now') has a resolution of one second.                      *)
(* A request is what express hands to a handler: the x-admin-key header,   *)
(* the path parameter and the parsed JSON body.  Identifiers drawn from    *)
(* crypto.randomBytes(8) are modelled as fresh (a counter).                *)
(***************************************************************************)
EXTENDS Integers, Sequences, FiniteSets, TLC

\* ---- bounds ----
MaxClients == 2      \* client rows ever inserted
MaxGrants  == 3      \* grant rows ever inserted
MaxTime    == 1      \* seconds the clock may advance
MaxList    == 2      \* length of a submitted bulk list

\* ---- program constants ----
ADMIN_PASS       == "grants2024"
DefaultPresenter == "grants-in-a-click"   \* the Hebrew label of lines 21, 85, 95
DefaultStatus    == "open"
DefaultMatchPct  == 70
DefaultSortOrder == 0

\* ---- JavaScript / JSON values ----
Undefined == "<undefined>"     \* the JavaScript value undefined
Null      == "<null>"          \* JSON null
NoHeader  == Undefined         \* req.headers['x-admin-key'] when the header is absent
EmptyBody == [x \in {} |-> ""] \* the JSON object {}
NullElem  == [null |-> TRUE]   \* a list element that is not an object (null)
NoId      == 0

VARIABLES clients, grants, now, nextClient, nextGrant, req, resp

store == <<clients, grants, now, nextClient, nextGrant>>
vars  == <<clients, grants, now, nextClient, nextGrant, req, resp>>

\* ---- request inputs ----
Keys      == {ADMIN_PASS, "wrong", NoHeader}
ClientIds == 1..(MaxClients + 1)
GrantIds  == 1..(MaxGrants + 1)

ClientBodies ==
  { [name |-> "Acme", sector |-> "Tech"],
    [name |-> "Beta", contact |-> "Dana", sector |-> "", email |-> "d@b",
     phone |-> "03", message |-> "hi", presenter |-> "Me"],
    [name |-> Null],
    EmptyBody }

GrantA == [name |-> "A", org |-> "Org", cat |-> "Cat", amount |-> "100-200",
           cover |-> "Cov", deadline |-> "2025-01-01", status |-> "closed",
           match_pct |-> 90, notes |-> "secret"]
GrantB == [name |-> "B", status |-> "", match_pct |-> 0, notes |-> "internal"]

GrantBodies == {GrantA, GrantB}

RECURSIVE SeqsUpTo(_, _)
SeqsUpTo(S, n) ==
  IF n = 0 THEN {<<>>}
  ELSE LET P == SeqsUpTo(S, n - 1)
       IN  P \cup {Append(s, e) : s \in {p \in P : Len(p) = n - 1}, e \in S}

\* bodies of a bulk replace: no grants member, a list of grant objects, or such
\* a list ending in null (forEach never reaches what follows the first null)
BulkBodies ==
  LET Good == SeqsUpTo(GrantBodies, MaxList)
  IN  {EmptyBody}
        \cup {[grants |-> l] : l \in Good}
        \cup {[grants |-> Append(l, NullElem)] : l \in {g \in Good : Len(g) < MaxList}}

\* ---- helpers ----
\* JavaScript `b.f || d` for a text field: undefined, null and '' are falsy
OrText(b, f, d) == IF f \in DOMAIN b /\ b[f] \notin {"", Null, Undefined} THEN b[f] ELSE d
\* JavaScript `b.f || d` for a number: undefined and 0 are falsy
OrNum(b, f, d) == IF f \in DOMAIN b /\ b[f] # 0 THEN b[f] ELSE d
\* a destructured field passed on as it is
Raw(b, f) == IF f \in DOMAIN b THEN b[f] ELSE Undefined

Max(S) == CHOOSE m \in S : \A x \in S : x <= m
\* a store that hands out the lowest free rowid
LowestFreeRowid(rows) ==
  CHOOSE n \in 1..(Cardinality(rows) + 1) :
    /\ n \notin {r.rowid : r \in rows}
    /\ \A m \in 1..(n - 1) : m \in {r.rowid : r \in rows}

\* the rowid SQLite gives the next row of a table holding `rows`
NewRowid(rows) == IF rows = {} THEN 1 ELSE Max({r.rowid : r \in rows}) + 1

ClientColumns == {"id", "name", "contact", "sector", "email", "phone", "message",
                  "presenter", "created_at", "updated_at"}
GrantColumns  == {"id", "client_id", "name", "org", "cat", "amount", "cover",
                  "deadline", "status", "match_pct", "notes", "sort_order"}
\* SELECT * : the declared columns of a row (rowid is hidden, seq is a ghost)
Columns(row, cols) == [c \in cols |-> row[c]]

Init ==
  /\ clients = {}
  /\ grants = {}
  /\ now = 0
  /\ nextClient = 1
  /\ nextGrant = 1
  /\ req = [op |-> "start", key |-> NoHeader, id |-> NoId]
  /\ resp = [status |-> 0, body |-> EmptyBody]

\* ---- responses ----
Reply(status, body) == [status |-> status, body |-> body]
Unauthorized == Reply(401, [error |-> "Unauthorized"])
NotFound     == Reply(404, [error |-> "Not found"])
Ok           == Reply(200, [ok |-> TRUE])
\* an exception thrown inside a handler: express's default error handler
Threw(what)  == Reply(500, [error |-> what])

\* what the access log keeps of a request: the route, the x-admin-key header, the path parameter
Request(op, key, id) == [op |-> op, key |-> key, id |-> id]

\* a guard that only asks for the header to be present
requireAnyKey(key) == key # NoHeader

\* requireAdmin lets the request through (calls next()) iff this holds
requireAdmin(key) == key = ADMIN_PASS

\* ---- queries ----
\* a statement that lost its WHERE clause touches every row
WhereAnything(rows, id) == rows

\* WHERE id = ? : the rows a statement addressed to `id` touches
WhereId(rows, id) == {r \in rows : r.id = id}

\* ORDER BY rowid alone
GrantBeforeByRowid(g, h) == g.rowid <= h.rowid

\* ORDER BY sort_order, rowid
GrantBefore(g, h) ==
  \/ g.sort_order < h.sort_order
  \/ g.sort_order = h.sort_order /\ g.rowid <= h.rowid

RECURSIVE OrderRows(_)
OrderRows(S) ==
  IF S = {} THEN <<>>
  ELSE LET m == CHOOSE g \in S : \A h \in S : GrantBefore(g, h)
       IN  <<m>> \o OrderRows(S \ {m})

\* SELECT * FROM grants WHERE client_id = ? ORDER BY sort_order, rowid
SelectGrants(rows, cid) ==
  LET s == OrderRows({g \in rows : g.client_id = cid})
  IN  [i \in 1..Len(s) |-> Columns(s[i], GrantColumns)]

\* ORDER BY created_at DESC; rows with equal created_at in any order
ClientBefore(c, d) == c.created_at >= d.created_at

\* SELECT * FROM clients ORDER BY created_at DESC : every order SQLite may return
SelectClients(rows) ==
  {s \in [1..Cardinality(rows) -> rows] :
     /\ \A i, j \in DOMAIN s : i # j => s[i] # s[j]
     /\ \A i, j \in DOMAIN s : i < j => ClientBefore(s[i], s[j])}

\* { ...c, grants: [...] }
WithGrants(c, gs) == [k \in ClientColumns \cup {"grants"} |->
                        IF k = "grants" THEN gs ELSE c[k]]

\* a projection that forgets to drop the notes
PublicGrantWithNotes(g) == g

\* ({ notes, ...g }) => g
PublicGrant(g) == [k \in (DOMAIN g) \ {"notes"} |-> g[k]]

\* ---- GET /api/clients ----
ListClients(key) ==
  /\ req' = Request("listClients", key, NoId)
  /\ IF ~requireAdmin(key) THEN resp' = Unauthorized
     ELSE \E s \in SelectClients(clients) :
            resp' = Reply(200, [i \in 1..Len(s) |->
                      WithGrants(Columns(s[i], ClientColumns), SelectGrants(grants, s[i].id))])
  /\ UNCHANGED store

\* ---- GET /api/client/:id ----
GetClient(key, id) ==
  /\ req' = Request("getClient", key, id)
  /\ IF WhereId(clients, id) = {} THEN resp' = NotFound
     ELSE LET client == CHOOSE c \in WhereId(clients, id) : TRUE
              gs == SelectGrants(grants, client.id)
              publicGrants == [i \in 1..Len(gs) |-> PublicGrant(gs[i])]
          IN  resp' = Reply(200, WithGrants(Columns(client, ClientColumns), publicGrants))
  /\ UNCHANGED store

\* ---- POST /api/clients ----
ClientValues(body) ==
  [name      |-> Raw(body, "name"),
   contact   |-> OrText(body, "contact", ""),
   sector    |-> OrText(body, "sector", ""),
   email     |-> OrText(body, "email", ""),
   phone     |-> OrText(body, "phone", ""),
   message   |-> OrText(body, "message", ""),
   presenter |-> OrText(body, "presenter", DefaultPresenter)]

CreateClient(key, body) ==
  /\ requireAdmin(key) => nextClient <= MaxClients
  /\ req' = Request("createClient", key, NoId)
  /\ IF ~requireAdmin(key) THEN resp' = Unauthorized /\ UNCHANGED store
     ELSE LET v == ClientValues(body)
              id == nextClient
          IN  IF v.name = Undefined THEN resp' = Threw("TypeError") /\ UNCHANGED store
              ELSE IF v.name = Null THEN resp' = Threw("SQLITE_CONSTRAINT_NOTNULL") /\ UNCHANGED store
              ELSE /\ clients' = clients \cup
                        {[id |-> id, name |-> v.name, contact |-> v.contact,
                          sector |-> v.sector, email |-> v.email, phone |-> v.phone,
                          message |-> v.message, presenter |-> v.presenter,
                          created_at |-> now, updated_at |-> now,
                          rowid |-> NewRowid(clients), seq |-> nextClient]}
                   /\ nextClient' = nextClient + 1
                   /\ resp' = Reply(200, [id |-> id, name |-> v.name])
                   /\ UNCHANGED <<grants, now, nextGrant>>

\* ---- PUT /api/clients/:id ----
UpdateClient(key, id, body) ==
  /\ req' = Request("updateClient", key, id)
  /\ IF ~requireAdmin(key) THEN resp' = Unauthorized /\ UNCHANGED store
     ELSE LET v == ClientValues(body)
              hit == WhereId(clients, id)
          IN  IF v.name = Undefined THEN resp' = Threw("TypeError") /\ UNCHANGED store
              ELSE IF v.name = Null /\ hit # {}
                   THEN resp' = Threw("SQLITE_CONSTRAINT_NOTNULL") /\ UNCHANGED store
              ELSE /\ clients' = (clients \ hit) \cup
                        {[c EXCEPT !.name = v.name, !.contact = v.contact,
                                   !.sector = v.sector, !.email = v.email,
                                   !.phone = v.phone, !.message = v.message,
                                   !.presenter = v.presenter, !.updated_at = now] : c \in hit}
                   /\ resp' = Ok
                   /\ UNCHANGED <<grants, now, nextClient, nextGrant>>

\* ---- DELETE /api/clients/:id ----
\* a store that does not enforce the foreign key leaves the rows in place
NoCascade(rows, cid) == rows

\* ON DELETE CASCADE: the grant rows that reference a deleted client go with it
Cascade(rows, cid) == {g \in rows : g.client_id # cid}

DeleteClient(key, id) ==
  /\ req' = Request("deleteClient", key, id)
  /\ IF ~requireAdmin(key) THEN resp' = Unauthorized /\ UNCHANGED store
     ELSE /\ clients' = clients \ WhereId(clients, id)
          /\ grants' = IF WhereId(clients, id) # {} THEN Cascade(grants, id) ELSE grants
          /\ resp' = Ok
          /\ UNCHANGED <<now, nextClient, nextGrant>>

\* ---- grants ----
\* the nine values every grant statement binds: name||'', ..., status||'open', match_pct||70, notes||''
GrantValues(body) ==
  [name      |-> OrText(body, "name", ""),
   org       |-> OrText(body, "org", ""),
   cat       |-> OrText(body, "cat", ""),
   amount    |-> OrText(body, "amount", ""),
   cover     |-> OrText(body, "cover", ""),
   deadline  |-> OrText(body, "deadline", ""),
   status    |-> OrText(body, "status", DefaultStatus),
   match_pct |-> OrNum(body, "match_pct", DefaultMatchPct),
   notes     |-> OrText(body, "notes", "")]

\* the row an INSERT INTO grants adds to `rows`
GrantRow(rows, id, cid, v, sortOrder) ==
  [id |-> id, client_id |-> cid, name |-> v.name, org |-> v.org, cat |-> v.cat,
   amount |-> v.amount, cover |-> v.cover, deadline |-> v.deadline,
   status |-> v.status, match_pct |-> v.match_pct, notes |-> v.notes,
   sort_order |-> sortOrder, rowid |-> NewRowid(rows), seq |-> id]

\* FOREIGN KEY (client_id) REFERENCES clients(id): an INSERT must name an existing client
ForeignKeyOk(cid) == WhereId(clients, cid) # {}

\* ---- POST /api/clients/:clientId/grants ----
CreateGrant(key, cid, body) ==
  /\ requireAdmin(key) => nextGrant <= MaxGrants
  /\ req' = Request("createGrant", key, cid)
  /\ IF ~requireAdmin(key) THEN resp' = Unauthorized /\ UNCHANGED store
     ELSE IF ~ForeignKeyOk(cid)
          THEN resp' = Threw("SQLITE_CONSTRAINT_FOREIGNKEY") /\ UNCHANGED store
     ELSE /\ grants' = grants \cup
               {GrantRow(grants, nextGrant, cid, GrantValues(body), DefaultSortOrder)}
          /\ nextGrant' = nextGrant + 1
          /\ resp' = Reply(200, [id |-> nextGrant])
          /\ UNCHANGED <<clients, now, nextClient>>

\* ---- PUT /api/grants/:id ----
\* an update that writes the whole row anew, sort_order back at its default
UpdatedGrantReordered(g, v) ==
  [g EXCEPT !.name = v.name, !.org = v.org, !.cat = v.cat, !.amount = v.amount,
            !.cover = v.cover, !.deadline = v.deadline, !.status = v.status,
            !.match_pct = v.match_pct, !.notes = v.notes,
            !.sort_order = DefaultSortOrder]

\* UPDATE grants SET name=?, ..., notes=? : the row g after the update
UpdatedGrant(g, v) ==
  [g EXCEPT !.name = v.name, !.org = v.org, !.cat = v.cat, !.amount = v.amount,
            !.cover = v.cover, !.deadline = v.deadline, !.status = v.status,
            !.match_pct = v.match_pct, !.notes = v.notes]

UpdateGrant(key, id, body) ==
  /\ req' = Request("updateGrant", key, id)
  /\ IF ~requireAdmin(key) THEN resp' = Unauthorized /\ UNCHANGED store
     ELSE LET v == GrantValues(body)
              hit == WhereId(grants, id)
          IN  /\ grants' = (grants \ hit) \cup {UpdatedGrant(g, v) : g \in hit}
              /\ resp' = Ok
              /\ UNCHANGED <<clients, now, nextClient, nextGrant>>

\* ---- DELETE /api/grants/:id ----
DeleteGrant(key, id) ==
  /\ req' = Request("deleteGrant", key, id)
  /\ IF ~requireAdmin(key) THEN resp' = Unauthorized /\ UNCHANGED store
     ELSE /\ grants' = grants \ WhereId(grants, id)
          /\ resp' = Ok
          /\ UNCHANGED <<clients, now, nextClient, nextGrant>>

\* ---- PUT /api/clients/:clientId/grants ----
\* grants.forEach((g, i) => insert.run(...)) from element i on (1-based here);
\* the first element that throws ends the loop and the rows inserted so far stay
RECURSIVE ForEachInsert(_, _, _, _, _)
ForEachInsert(rows, list, i, cid, nid) ==
  IF i > Len(list) THEN [rows |-> rows, next |-> nid, threw |-> ""]
  ELSE IF "null" \in DOMAIN list[i]
       THEN [rows |-> rows, next |-> nid, threw |-> "TypeError"]
  ELSE IF ~ForeignKeyOk(cid)
       THEN [rows |-> rows, next |-> nid, threw |-> "SQLITE_CONSTRAINT_FOREIGNKEY"]
  ELSE ForEachInsert(rows \cup {GrantRow(rows, nid, cid, GrantValues(list[i]), i - 1)},
                     list, i + 1, cid, nid + 1)

\* a replace that forgets to delete the old rows
DeleteNothing(rows, cid) == rows

\* what line 137 leaves of the grants table
DeleteOfClient(rows, cid) == {g \in rows : g.client_id # cid}

BulkReplace(key, cid, body) ==
  /\ (requireAdmin(key) /\ "grants" \in DOMAIN body)
       => nextGrant + Len(body.grants) <= MaxGrants + 1
  /\ req' = Request("bulkReplace", key, cid)
  /\ IF ~requireAdmin(key) THEN resp' = Unauthorized /\ UNCHANGED store
     ELSE LET kept == DeleteOfClient(grants, cid)
          IN  IF "grants" \notin DOMAIN body
              THEN /\ grants' = kept
                   /\ resp' = Threw("TypeError")
                   /\ UNCHANGED <<clients, now, nextClient, nextGrant>>
              ELSE LET r == ForEachInsert(kept, body.grants, 1, cid, nextGrant)
                   IN  /\ grants' = r.rows
                       /\ nextGrant' = r.next
                       /\ resp' = IF r.threw = "" THEN Ok ELSE Threw(r.threw)
                       /\ UNCHANGED <<clients, now, nextClient>>

\* ---- time ----
\* a second of wall-clock time passes between two requests
Tick ==
  /\ now < MaxTime
  /\ now' = now + 1
  /\ UNCHANGED <<clients, grants, nextClient, nextGrant, req, resp>>

\* the requests a client may send: headers from K, client and grant ids from
\* CI and GI, client, grant and bulk bodies from CB, GB and BB
Requests(K, CI, GI, CB, GB, BB) ==
  \/ \E k \in K : ListClients(k)
  \/ \E k \in K, id \in CI : GetClient(k, id)
  \/ \E k \in K, b \in CB : CreateClient(k, b)
  \/ \E k \in K, id \in CI, b \in CB : UpdateClient(k, id, b)
  \/ \E k \in K, id \in CI : DeleteClient(k, id)
  \/ \E k \in K, id \in CI, b \in GB : CreateGrant(k, id, b)
  \/ \E k \in K, id \in GI, b \in GB : UpdateGrant(k, id, b)
  \/ \E k \in K, id \in GI : DeleteGrant(k, id)
  \/ \E k \in K, id \in CI, b \in BB : BulkReplace(k, id, b)

Next == Requests(Keys, ClientIds, GrantIds, ClientBodies, GrantBodies, BulkBodies) \/ Tick

Spec == Init /\ [][Next]_vars

\* every header, id and client body, the clock running; one grant body and
\* bulk lists of at most one grant
NextAccess ==
  \/ Requests(Keys, ClientIds, GrantIds, ClientBodies, {GrantB},
              {EmptyBody, [grants |-> <<>>], [grants |-> <<GrantB>>]})
  \/ Tick

SpecAccess == Init /\ [][NextAccess]_vars

\* every grant body and bulk body, authorized, addressed to the ids the
\* counters can hand out (each of them is unused before it is handed out and
\* after its row is deleted); one client body, the clock standing
NextGrants ==
  Requests({ADMIN_PASS}, 1..MaxClients, 1..MaxGrants,
           {[name |-> "Acme", sector |-> "Tech"]}, GrantBodies, BulkBodies)

SpecGrants == Init /\ [][NextGrants]_vars

\* ---- properties ----
Protected == {"listClients", "createClient", "updateClient", "deleteClient",
              "createGrant", "updateGrant", "deleteGrant", "bulkReplace"}

\* the row of `rows` with the given id
RowIn(rows, id) == CHOOSE r \in rows : r.id = id

\* C1: a protected operation whose x-admin-key is absent or differs from the
\* admin secret answers 401 Unauthorized and leaves the clients and grants
\* tables exactly as they were.
C1_UnauthorizedChangesNothing ==
  [][(req'.op \in Protected /\ req'.key # ADMIN_PASS)
       => /\ resp'.status = 401
          /\ resp'.body = [error |-> "Unauthorized"]
          /\ clients' = clients
          /\ grants' = grants]_vars

\* an unauthorized delete of a client that exists and owns a grant was refused
C1_Witness ==
  /\ req.op = "deleteClient"
  /\ req.key = "wrong"
  /\ resp.status = 401
  /\ \E c \in clients : c.id = req.id
  /\ \E g \in grants : g.client_id = req.id

\* C2: the public get-client response carries no notes field on any grant,
\* and every other column of every grant of the client as it is stored, in
\* the stored order.
C2_PublicHidesNotes ==
  (req.op = "getClient" /\ resp.status = 200) =>
    LET out == resp.body.grants
        own == SelectGrants(grants, req.id)
    IN  /\ Len(out) = Len(own)
        /\ \A i \in 1..Len(out) :
             /\ DOMAIN out[i] = GrantColumns \ {"notes"}
             /\ \A k \in GrantColumns \ {"notes"} : out[i][k] = own[i][k]

\* the public view of a client owning a grant whose stored notes are not empty
C2_Witness ==
  /\ req.op = "getClient"
  /\ resp.status = 200
  /\ Len(resp.body.grants) >= 2
  /\ \E g \in grants : g.client_id = req.id /\ g.notes = "secret"
  /\ \E g \in grants : g.client_id = req.id /\ g.notes = "internal"

\* C4: every grant row references exactly one existing client: a deleted
\* client's grants are gone with it, and no operation leaves a grant row
\* whose client_id no client has.
C4_GrantsBelongToClients ==
  \A g \in grants : Cardinality({c \in clients : c.id = g.client_id}) = 1

\* client 1 was deleted after a grant had been inserted, another client remains
C4_Witness ==
  /\ req.op = "deleteClient"
  /\ resp.status = 200
  /\ req.id = 1
  /\ nextGrant > 1
  /\ clients # {}
  /\ \A c \in clients : c.id # 1

\* what a submitted grant object is to be stored as: the submitted values,
\* '' for a text left out, "open" for no status, 70 for no match_pct
StoredAs(b) ==
  IF b = GrantA
  THEN [name |-> "A", org |-> "Org", cat |-> "Cat", amount |-> "100-200",
        cover |-> "Cov", deadline |-> "2025-01-01", status |-> "closed",
        match_pct |-> 90, notes |-> "secret"]
  ELSE [name |-> "B", org |-> "", cat |-> "", amount |-> "", cover |-> "",
        deadline |-> "", status |-> "open", match_pct |-> 70, notes |-> "internal"]

GrantFields == {"name", "org", "cat", "amount", "cover", "deadline", "status",
                "match_pct", "notes"}

IsGrantObject(e) == e \in GrantBodies

\* the ordered list `out` is the submitted `list`, position by position
IsSubmitted(out, list) ==
  /\ Len(out) = Len(list)
  /\ \A i \in 1..Len(list) :
       /\ IsGrantObject(list[i])
       /\ out[i].sort_order = i - 1
       /\ \A k \in GrantFields : out[i][k] = StoredAs(list[i])[k]

\* the ordered grants of a client without their generated ids
Anonymous(out) == [i \in 1..Len(out) |-> [k \in GrantColumns \ {"id"} |-> out[i][k]]]

OfOthers(rows, cid) == {g \in rows : g.client_id # cid}

\* C3: the bulk replace is atomic: whatever happens during it, the client's
\* grant list afterwards is entirely the old list or entirely the submitted one.
C3_BulkReplaceAtomic ==
  [][req'.op = "bulkReplace" => \A b \in BulkBodies :
       BulkReplace(ADMIN_PASS, req'.id, b)
         => \/ Anonymous(SelectGrants(grants', req'.id))
                 = Anonymous(SelectGrants(grants, req'.id))
            \/ /\ "grants" \in DOMAIN b
               /\ IsSubmitted(SelectGrants(grants', req'.id), b.grants)]_vars

\* C5: an authorized bulk replace of an existing client's grants with a list
\* of n grant objects succeeds and leaves that client with exactly n grants,
\* in the submitted order, sort_order 0..n-1, the submitted values with the
\* defaults applied, under fresh ids; no grant the client had before remains
\* and the grants of other clients are unchanged.
C5_BulkReplaceSetsList ==
  [][req'.op = "bulkReplace" => \A b \in BulkBodies :
       ( /\ BulkReplace(ADMIN_PASS, req'.id, b)
         /\ \E c \in clients : c.id = req'.id
         /\ "grants" \in DOMAIN b
         /\ \A i \in 1..Len(b.grants) : IsGrantObject(b.grants[i]) )
         => LET out == SelectGrants(grants', req'.id)
            IN  /\ resp'.status = 200
                /\ IsSubmitted(out, b.grants)
                /\ \A i \in 1..Len(out) : \A g \in grants : g.id # out[i].id
                /\ \A i, j \in 1..Len(out) : i # j => out[i].id # out[j].id
                /\ OfOthers(grants', req'.id) = OfOthers(grants, req'.id)
                /\ clients' = clients]_vars

\* a client holds the two grants of a bulk replace while another client holds one
C5_Witness ==
  /\ req.op = "bulkReplace"
  /\ resp.status = 200
  /\ Len(SelectGrants(grants, req.id)) = 2
  /\ \E g \in grants : g.client_id # req.id
  /\ \A g \in grants : g.client_id = req.id => g.id > 1

NoChange == clients' = clients /\ grants' = grants
IsOk(r) == r.status = 200 /\ r.body = [ok |-> TRUE]
NoRow(rows, id) == \A r \in rows : r.id # id
NoClient(id) == NoRow(clients, id)
NoGrant(id) == NoRow(grants, id)

PositionOf(out, id) == CHOOSE i \in 1..Len(out) : out[i].id = id

\* C7 as stated: after a successful create grant the new grant has sort_order
\* 0 and is the last element of the client's ordered grant list.
C7_CreatedGrantIsLast ==
  (req.op = "createGrant" /\ resp.status = 200) =>
    LET out == SelectGrants(grants, req.id)
    IN  /\ Len(out) > 0
        /\ out[Len(out)].id = resp.body.id
        /\ out[Len(out)].sort_order = 0

\* C7 amended: after a successful create grant the new grant has sort_order 0
\* and stands after every other grant of the client whose sort_order is 0 and
\* before every grant whose sort_order is greater; it is the last element
\* exactly when no grant of the client has a sort_order above 0.
C7_CreatedGrantEndsOrderZero ==
  (req.op = "createGrant" /\ resp.status = 200) =>
    LET out == SelectGrants(grants, req.id)
        p == PositionOf(out, resp.body.id)
    IN  /\ \E i \in 1..Len(out) : out[i].id = resp.body.id
        /\ out[p].sort_order = 0
        /\ \A i \in 1..Len(out) : i < p => out[i].sort_order = 0
        /\ \A i \in 1..Len(out) : i > p => out[i].sort_order > 0
        /\ (p = Len(out)) <=> (\A i \in 1..Len(out) : out[i].sort_order = 0)

\* a grant created for a client whose list a bulk replace had numbered 0, 1
C7_Witness ==
  /\ req.op = "createGrant"
  /\ resp.status = 200
  /\ \E g \in grants : g.client_id = req.id /\ g.sort_order = 1
  /\ \E g \in grants : g.client_id = req.id /\ g.sort_order = 0 /\ g.id # resp.body.id
  /\ \E g \in grants : g.id = resp.body.id

\* a returned grant list is sorted by sort_order, ties in insertion order
InOrder(out) ==
  \A i, j \in 1..Len(out) :
    i < j => \/ out[i].sort_order < out[j].sort_order
             \/ /\ out[i].sort_order = out[j].sort_order
                /\ RowIn(grants, out[i].id).seq < RowIn(grants, out[j].id).seq

\* a returned grant list holds each grant of the client once and no other
IsListOf(out, cid) ==
  /\ Len(out) = Cardinality({g \in grants : g.client_id = cid})
  /\ \A g \in grants : g.client_id = cid =>
       \E i \in 1..Len(out) : \A k \in DOMAIN out[i] : out[i][k] = g[k]

\* C8: every read of a client's grants, by list clients and by public get,
\* returns all of them sorted by sort_order ascending, grants of equal
\* sort_order in the order in which they were inserted.
C8_ReadsOrdered ==
  /\ (req.op = "getClient" /\ resp.status = 200) =>
        InOrder(resp.body.grants) /\ IsListOf(resp.body.grants, req.id)
  /\ (req.op = "listClients" /\ resp.status = 200) =>
        \A n \in 1..Len(resp.body) :
          InOrder(resp.body[n].grants) /\ IsListOf(resp.body[n].grants, resp.body[n].id)

\* two grants of sort_order 0, inserted second and third, read back in that order
C8_Witness ==
  /\ req.op = "getClient"
  /\ resp.status = 200
  /\ Len(resp.body.grants) = 2
  /\ resp.body.grants[1].sort_order = 0
  /\ resp.body.grants[2].sort_order = 0
  /\ resp.body.grants[1].id = 2
  /\ resp.body.grants[2].id = 3

\* C9: list clients returns the clients newest first: of any two returned
\* clients the one created by the later request comes first.
C9_NewestFirst ==
  (req.op = "listClients" /\ resp.status = 200) =>
    \A i, j \in 1..Len(resp.body) :
      i < j => RowIn(clients, resp.body[i].id).seq > RowIn(clients, resp.body[j].id).seq

\* C10: an authorized update of an existing grant overwrites its nine mutable
\* fields and nothing else: id, client_id and sort_order stay, the order of
\* the client's grant list stays, every other grant row and every client row
\* is unchanged.
C10_UpdateGrantFrame ==
  [][req'.op = "updateGrant" => \A b \in GrantBodies :
       (UpdateGrant(ADMIN_PASS, req'.id, b) /\ ~NoGrant(req'.id))
         => LET old == RowIn(grants, req'.id)
                new == RowIn(grants', req'.id)
                ids(out) == [i \in 1..Len(out) |-> out[i].id]
            IN  /\ IsOk(resp')
                /\ \E g \in grants' : g.id = req'.id
                /\ \A k \in GrantFields : new[k] = StoredAs(b)[k]
                /\ new.client_id = old.client_id
                /\ new.sort_order = old.sort_order
                /\ ids(SelectGrants(grants', old.client_id)) = ids(SelectGrants(grants, old.client_id))
                /\ grants' \ {new} = grants \ {old}
                /\ clients' = clients]_vars

\* the second grant of a bulk list was updated and is still second
C10_Witness ==
  /\ req.op = "updateGrant"
  /\ IsOk(resp)
  /\ \E g \in grants :
       /\ g.id = req.id
       /\ g.sort_order = 1
       /\ \E h \in grants : h.client_id = g.client_id /\ h.sort_order = 0 /\ h.notes # g.notes
====
